---- MODULE Spec2Model ----
(***************************************************************************)
(* Model of apis/flinkcluster/v1beta1/flinkcluster_types_util.go: the job  *)
(* state classifier, the savepoint freshness check, the restart and update *)
(* evaluators and the high-availability validator of the FlinkCluster API. *)
(*                                                                         *)
(* Go values are modelled as follows.                                      *)
(*   pointer      a sequence of length 0 (nil) or 1 (the pointee)          *)
(*   string       a sequence of one-character strings ("" is <<>>)         *)
(*   time.Time    a number of seconds; 0 is the zero time (IsZero)         *)
(*   call result  a sequence of length 0 (the call panicked on a nil       *)
(*                dereference) or 1 (the returned value)                   *)
(***************************************************************************)
EXTENDS Integers, Sequences, FiniteSets, TLC

VARIABLES
    status,       \* the *JobStatus receiver j
    spec,         \* the *JobSpec argument
    observeTime,  \* the time.Time argument (observeTime, compareTime)
    props,        \* FlinkCluster.Spec.FlinkProperties
    op,           \* the evaluator called last
    ret           \* what that call returned

vars == <<status, spec, observeTime, props, op, ret>>

\* Largest time stamp (seconds after the zero time) drawn for an input.
MaxTime == 2
\* Largest maxStateAgeToRestoreSeconds drawn for an input.
MaxAge == 1

---------------------------------------------------------------------------
\* Pointers and call results.

Nil == <<>>
Ptr(v) == <<v>>
Deref(p) == p[1]

Panic == <<>>
Ret(v) == <<v>>

---------------------------------------------------------------------------
\* Constants.

haConfigType == "high-availability"
haConfigStorageDir == "high-availability.storageDir"
haConfigClusterId == "kubernetes.cluster-id"

JobStatePending == "Pending"
JobStateUpdating == "Updating"
JobStateRestarting == "Restarting"
JobStateDeploying == "Deploying"
JobStateDeployFailed == "DeployFailed"
JobStateRunning == "Running"
JobStateSucceeded == "Succeeded"
JobStateCancelled == "Cancelled"
JobStateFailed == "Failed"
JobStateLost == "Lost"

JobRestartPolicyNever == "Never"
JobRestartPolicyFromSavepointOnFailure == "FromSavepointOnFailure"

---------------------------------------------------------------------------
\* Strings and times.

IsSpace(c) == c \in {" ", "\t", "\n"}

RECURSIVE TrimLeft(_)
TrimLeft(s) ==
    IF s # <<>> /\ IsSpace(Head(s)) THEN TrimLeft(Tail(s)) ELSE s

RECURSIVE TrimRight(_)
TrimRight(s) ==
    IF s # <<>> /\ IsSpace(s[Len(s)])
    THEN TrimRight(SubSeq(s, 1, Len(s) - 1))
    ELSE s

\* strings.TrimSpace
TrimSpace(s) == TrimRight(TrimLeft(s))

LowerChar(c) ==
    CASE c = "N" -> "n"
      [] c = "O" -> "o"
      [] c = "E" -> "e"
      [] c = "Z" -> "z"
      [] c = "K" -> "k"
      [] OTHER -> c

\* strings.ToLower
ToLower(s) == [i \in 1..Len(s) |-> LowerChar(s[i])]

\* time.Time.IsZero
IsZero(t) == t = 0

\* metav1.Time.IsZero on a *metav1.Time: true for a nil pointer.
PtrTimeIsZero(p) == p = Nil \/ IsZero(Deref(p))

\* A time stamp written as a string: the decimal digits of its seconds.
RECURSIVE FormatTime(_)
FormatTime(t) ==
    IF t < 10 THEN <<t>> ELSE Append(FormatTime(t \div 10), t % 10)

\* util.TimeConverter.FromString
RECURSIVE FromString(_)
FromString(s) ==
    IF s = <<>> THEN 0 ELSE 10 * FromString(SubSeq(s, 1, Len(s) - 1)) + s[Len(s)]

\* util.HasTimeElapsed: whether intervalSec seconds have passed at now since
\* the time written in timeToCheckStr.
HasTimeElapsed(timeToCheckStr, now, intervalSec) ==
    now - FromString(timeToCheckStr) >= intervalSec

---------------------------------------------------------------------------
\* The job state classifier.

IsActive(j) ==
    j # Nil /\
    (Deref(j).State = JobStateRunning \/ Deref(j).State = JobStateDeploying)

IsPending(j) ==
    j # Nil /\
    (Deref(j).State = JobStatePending \/
     Deref(j).State = JobStateUpdating \/
     Deref(j).State = JobStateRestarting)

IsFailed_NoLost(j) ==
    j # Nil /\
    (Deref(j).State = JobStateFailed \/
     Deref(j).State = JobStateDeployFailed)

IsFailed(j) ==
    j # Nil /\
    (Deref(j).State = JobStateFailed \/
     Deref(j).State = JobStateLost \/
     Deref(j).State = JobStateDeployFailed)

IsStopped(j) ==
    j # Nil /\
    (Deref(j).State = JobStateSucceeded \/
     Deref(j).State = JobStateCancelled \/
     IsFailed(j))

---------------------------------------------------------------------------
\* The savepoint freshness check.

\* The age comparison taken without the negation.
IsSavepointUpToDate_Inverted(j, s, compareTime) ==
    IF j = Nil THEN Panic
    ELSE IF Deref(j).FinalSavepoint THEN Ret(TRUE)
    ELSE IF IsZero(compareTime) THEN Ret(FALSE)
    ELSE IF s = Nil THEN Panic
    ELSE IF Deref(s).MaxStateAgeToRestoreSeconds = Nil \/
            Deref(j).SavepointLocation = <<>> \/
            Deref(j).SavepointTime = <<>> THEN Ret(FALSE)
    ELSE LET stateMaxAge == Deref(Deref(s).MaxStateAgeToRestoreSeconds)
         IN  Ret(HasTimeElapsed(Deref(j).SavepointTime, compareTime, stateMaxAge))

\* The final-savepoint test placed after the missing-data test.
IsSavepointUpToDate_FinalLate(j, s, compareTime) ==
    IF j = Nil THEN Panic
    ELSE IF IsZero(compareTime) THEN Ret(FALSE)
    ELSE IF s = Nil THEN Panic
    ELSE IF Deref(s).MaxStateAgeToRestoreSeconds = Nil \/
            Deref(j).SavepointLocation = <<>> \/
            Deref(j).SavepointTime = <<>> THEN Ret(FALSE)
    ELSE IF Deref(j).FinalSavepoint THEN Ret(TRUE)
    ELSE LET stateMaxAge == Deref(Deref(s).MaxStateAgeToRestoreSeconds)
         IN  Ret(~HasTimeElapsed(Deref(j).SavepointTime, compareTime, stateMaxAge))

IsSavepointUpToDate(j, s, compareTime) ==
    IF j = Nil THEN Panic
    ELSE IF Deref(j).FinalSavepoint THEN Ret(TRUE)
    ELSE IF IsZero(compareTime) THEN Ret(FALSE)
    ELSE IF s = Nil THEN Panic
    ELSE IF Deref(s).MaxStateAgeToRestoreSeconds = Nil \/
            Deref(j).SavepointLocation = <<>> \/
            Deref(j).SavepointTime = <<>> THEN Ret(FALSE)
    ELSE LET stateMaxAge == Deref(Deref(s).MaxStateAgeToRestoreSeconds)
         IN  Ret(~HasTimeElapsed(Deref(j).SavepointTime, compareTime, stateMaxAge))

---------------------------------------------------------------------------
\* The restart evaluator.

\* The restart policy left unread.
ShouldRestart_AnyPolicy(j, s) ==
    IF j = Nil \/ ~IsFailed(j) \/ s = Nil THEN Ret(FALSE)
    ELSE LET jobCompletionTime ==
                 IF Deref(j).CompletionTime # Nil
                 THEN Deref(Deref(j).CompletionTime) ELSE 0
         IN  IsSavepointUpToDate(j, s, jobCompletionTime)

ShouldRestart(j, s) ==
    IF j = Nil \/ ~IsFailed(j) \/ s = Nil THEN Ret(FALSE)
    ELSE LET restartEnabled ==
                 Deref(s).RestartPolicy # Nil /\
                 Deref(Deref(s).RestartPolicy) = JobRestartPolicyFromSavepointOnFailure
             jobCompletionTime ==
                 IF Deref(j).CompletionTime # Nil
                 THEN Deref(Deref(j).CompletionTime) ELSE 0
         IN  IF restartEnabled
             THEN IsSavepointUpToDate(j, s, jobCompletionTime)
             ELSE Ret(FALSE)

IsTerminated(j, s) ==
    IF IsStopped(j)
    THEN LET r == ShouldRestart(j, s)
         IN  IF r = Panic THEN Panic ELSE Ret(~Deref(r))
    ELSE Ret(FALSE)

---------------------------------------------------------------------------
\* The update evaluator.

isBlank(s) == s = Nil \/ TrimSpace(Deref(s)) = <<>>

\* An unset takeSavepointOnUpdate read as false.
TakeSavepointOnUpdate_DefaultFalse(s) ==
    IF s = Nil THEN Panic
    ELSE Ret(Deref(s).TakeSavepointOnUpdate # Nil /\
             Deref(Deref(s).TakeSavepointOnUpdate))

\* var takeSavepointOnUpdate = spec.TakeSavepointOnUpdate == nil || *spec.TakeSavepointOnUpdate
TakeSavepointOnUpdate(s) ==
    IF s = Nil THEN Panic
    ELSE Ret(Deref(s).TakeSavepointOnUpdate = Nil \/
             Deref(Deref(s).TakeSavepointOnUpdate))

\* The active case accepting any up-to-date savepoint, final or not.
UpdateReadyActive_AnySavepoint(j, s, observeTime_, takeSavepointOnUpdate) ==
    IF Deref(j).FinalSavepoint THEN Ret(TRUE)
    ELSE IsSavepointUpToDate(j, s, observeTime_)

\* case j.IsActive()
UpdateReadyActive(j, s, observeTime_, takeSavepointOnUpdate) ==
    IF takeSavepointOnUpdate
    THEN Ret(Deref(j).FinalSavepoint)
    ELSE IsSavepointUpToDate(j, s, observeTime_)

\* The default case comparing against the zero time, whatever completionTime is.
UpdateReadyDefault_ZeroTime(j, s) == IsSavepointUpToDate(j, s, 0)

\* default
UpdateReadyDefault(j, s) ==
    LET jobCompletionTime ==
            IF ~PtrTimeIsZero(Deref(j).CompletionTime)
            THEN Deref(Deref(j).CompletionTime) ELSE 0
    IN  IsSavepointUpToDate(j, s, jobCompletionTime)

\* The active case tried before the fromSavepoint case.
UpdateReady_ActiveFirst(j, s, observeTime_) ==
    LET take == TakeSavepointOnUpdate(s)
    IN  IF take = Panic THEN Panic
        ELSE IF j = Nil THEN Ret(TRUE)
        ELSE IF IsActive(j) THEN UpdateReadyActive(j, s, observeTime_, Deref(take))
        ELSE IF ~isBlank(Deref(s).FromSavepoint) THEN Ret(TRUE)
        ELSE IF Deref(j).State = JobStateUpdating /\ ~Deref(take) THEN Ret(TRUE)
        ELSE UpdateReadyDefault(j, s)

UpdateReady(j, s, observeTime_) ==
    LET take == TakeSavepointOnUpdate(s)
    IN  IF take = Panic THEN Panic
        ELSE IF j = Nil THEN Ret(TRUE)
        ELSE IF ~isBlank(Deref(s).FromSavepoint) THEN Ret(TRUE)
        ELSE IF IsActive(j) THEN UpdateReadyActive(j, s, observeTime_, Deref(take))
        ELSE IF Deref(j).State = JobStateUpdating /\ ~Deref(take) THEN Ret(TRUE)
        ELSE UpdateReadyDefault(j, s)

---------------------------------------------------------------------------
\* The high-availability validator.  A property map is a pointer to a
\* function from its keys to their values (a nil map is Nil).

HasKey(m, k) == k \in DOMAIN Deref(m)

IsHighAvailabilityEnabled(m) ==
    IF m = Nil THEN FALSE
    ELSE IF ~HasKey(m, haConfigType) \/
            ToLower(Deref(m)[haConfigType]) = <<"n","o","n","e">> THEN FALSE
    ELSE IF ~HasKey(m, haConfigClusterId) \/
            TrimSpace(Deref(m)[haConfigClusterId]) = <<>> THEN FALSE
    ELSE IF ~HasKey(m, haConfigStorageDir) \/
            TrimSpace(Deref(m)[haConfigStorageDir]) = <<>> THEN FALSE
    ELSE TRUE

ConfigMapSuffix ==
    <<"-","c","l","u","s","t","e","r","-","c","o","n","f","i","g","-","m","a","p">>

\* A nil map read at a key gives "", as does a map without the key.
MapGet(m, k) == IF m # Nil /\ HasKey(m, k) THEN Deref(m)[k] ELSE <<>>

GetHAConfigMapName(m) ==
    IF ~IsHighAvailabilityEnabled(m) THEN <<>>
    ELSE MapGet(m, haConfigClusterId) \o ConfigMapSuffix

---------------------------------------------------------------------------
\* The inputs the callers pass.

JobStates ==
    {JobStatePending, JobStateUpdating, JobStateRestarting, JobStateDeploying,
     JobStateDeployFailed, JobStateRunning, JobStateSucceeded, JobStateCancelled,
     JobStateFailed, JobStateLost}

\* JobState is a string type: a status just created holds "".
StateInputs == JobStates \cup {""}

Times == 0..MaxTime

LocationInputs == {<<>>, <<"s","3">>}

TimeStringInputs == {<<>>} \cup {FormatTime(t) : t \in 1..MaxTime}

CompletionTimeInputs == {Nil} \cup {Ptr(t) : t \in Times}

RestartPolicyInputs ==
    {Nil, Ptr(JobRestartPolicyNever), Ptr(JobRestartPolicyFromSavepointOnFailure)}

MaxStateAgeInputs == {Nil} \cup {Ptr(a) : a \in 0..MaxAge}

TakeSavepointInputs == {Nil, Ptr(TRUE), Ptr(FALSE)}

FromSavepointInputs ==
    {Nil, Ptr(<<>>), Ptr(<<" ">>), Ptr(<<"s">>), Ptr(<<" ","s"," ">>)}

JobStatusOf(states, completionTimes) ==
    {Nil} \cup
    {Ptr(r) : r \in [State : states,
                     SavepointLocation : LocationInputs,
                     SavepointTime : TimeStringInputs,
                     FinalSavepoint : BOOLEAN,
                     CompletionTime : completionTimes]}

JobSpecOf(policies, takes, froms) ==
    {Nil} \cup
    {Ptr(r) : r \in [RestartPolicy : policies,
                     MaxStateAgeToRestoreSeconds : MaxStateAgeInputs,
                     TakeSavepointOnUpdate : takes,
                     FromSavepoint : froms]}

HATypeInputs ==
    {<<>>, <<" ">>, <<"n","o","n","e">>, <<"N","O","N","E">>, <<"N","o","n","e">>,
     <<"n","o","n","e"," ">>, <<"z","k">>}

HAValueInputs == {<<>>, <<" ">>, <<"c","1">>, <<" ","c","1"," ">>}

HAKeys == {haConfigType, haConfigClusterId, haConfigStorageDir}

PropertyInputs ==
    {Nil} \cup
    {Ptr(m) : m \in UNION {[ks -> HATypeInputs \cup HAValueInputs] : ks \in SUBSET HAKeys}}

NoCall == "none"

---------------------------------------------------------------------------
\* Calls.  Each stores the evaluator's name in op and its result in ret.

Call(name, result) ==
    /\ op' = name
    /\ ret' = result
    /\ UNCHANGED <<status, spec, observeTime, props>>

CallIsActive == Call("IsActive", Ret(IsActive(status)))

CallIsPending == Call("IsPending", Ret(IsPending(status)))

CallIsFailed == Call("IsFailed", Ret(IsFailed(status)))

CallIsStopped == Call("IsStopped", Ret(IsStopped(status)))

CallIsTerminated == Call("IsTerminated", IsTerminated(status, spec))

CallIsSavepointUpToDate ==
    Call("IsSavepointUpToDate", IsSavepointUpToDate(status, spec, observeTime))

CallShouldRestart == Call("ShouldRestart", ShouldRestart(status, spec))

CallUpdateReady == Call("UpdateReady", UpdateReady(status, spec, observeTime))

CallIsHighAvailabilityEnabled ==
    Call("IsHighAvailabilityEnabled", Ret(IsHighAvailabilityEnabled(props)))

CallGetHAConfigMapName ==
    Call("GetHAConfigMapName", Ret(GetHAConfigMapName(props)))

\* The reconciler records a final savepoint taken at time t for the job and
\* starts a new pass: the results of the pass before are dropped.
ObserveFinalSavepoint ==
    /\ status # Nil
    /\ ~Deref(status).FinalSavepoint
    /\ \E t \in 1..MaxTime :
          status' = Ptr([Deref(status) EXCEPT !.FinalSavepoint = TRUE,
                                              !.SavepointLocation = <<"s","3">>,
                                              !.SavepointTime = FormatTime(t)])
    /\ op' = NoCall
    /\ ret' = <<>>
    /\ UNCHANGED <<spec, observeTime, props>>

---------------------------------------------------------------------------
\* Specifications: one per group of evaluators, each drawing the inputs its
\* evaluators read.

NoJob ==
    /\ status = Nil
    /\ spec = Nil
    /\ observeTime = 0

\* IsSavepointUpToDate reads the savepoint fields, the maximum age and the
\* compare time.
InitSavepoint ==
    /\ status \in JobStatusOf({JobStateRunning}, {Nil})
    /\ spec \in JobSpecOf({Nil}, {Nil}, {Nil})
    /\ observeTime \in Times
    /\ props = Nil
    /\ op = NoCall
    /\ ret = <<>>

NextSavepoint == CallIsSavepointUpToDate

SpecSavepoint == InitSavepoint /\ [][NextSavepoint]_vars

\* The classifier, ShouldRestart and IsTerminated read the whole status, the
\* restart policy and the maximum age.
InitRestart ==
    /\ status \in JobStatusOf(StateInputs, CompletionTimeInputs)
    /\ spec \in JobSpecOf(RestartPolicyInputs, {Nil}, {Nil})
    /\ observeTime = 0
    /\ props = Nil
    /\ op = NoCall
    /\ ret = <<>>

NextRestart ==
    \/ CallIsActive
    \/ CallIsPending
    \/ CallIsFailed
    \/ CallIsStopped
    \/ CallIsTerminated
    \/ CallShouldRestart

SpecRestart == InitRestart /\ [][NextRestart]_vars

\* UpdateReady reads the whole status, every field of the spec but the restart
\* policy, and the observe time.
InitUpdate ==
    /\ status \in JobStatusOf(StateInputs, CompletionTimeInputs)
    /\ spec \in JobSpecOf({Nil}, TakeSavepointInputs, FromSavepointInputs)
    /\ observeTime \in Times
    /\ props = Nil
    /\ op = NoCall
    /\ ret = <<>>

NextUpdate ==
    \/ CallUpdateReady
    \/ ObserveFinalSavepoint

SpecUpdate == InitUpdate /\ [][NextUpdate]_vars

\* ShouldRestart and UpdateReady on the same status and spec.
InitRestartUpdate ==
    /\ status \in JobStatusOf(StateInputs, CompletionTimeInputs)
    /\ spec \in JobSpecOf(RestartPolicyInputs, TakeSavepointInputs, FromSavepointInputs)
    /\ observeTime \in Times
    /\ props = Nil
    /\ op = NoCall
    /\ ret = <<>>

NextRestartUpdate ==
    \/ CallShouldRestart
    \/ CallUpdateReady

SpecRestartUpdate == InitRestartUpdate /\ [][NextRestartUpdate]_vars

\* The validator reads the property map.
InitHA ==
    /\ NoJob
    /\ props \in PropertyInputs
    /\ op = NoCall
    /\ ret = <<>>

NextHA ==
    \/ CallIsHighAvailabilityEnabled
    \/ CallGetHAConfigMapName

SpecHA == InitHA /\ [][NextHA]_vars

---------------------------------------------------------------------------
\* What the properties below say of the inputs, written without the
\* evaluators.

HasStatus == status # Nil
HasSpec == spec # Nil
J == Deref(status)
P == Deref(spec)

StateIn(states) == HasStatus /\ J.State \in states

\* A string pointer that is nil or points to white space only.
Blank(p) == p = Nil \/ \A i \in 1..Len(Deref(p)) : Deref(p)[i] \in {" ", "\t", "\n"}

BlankString(v) == \A i \in 1..Len(v) : v[i] \in {" ", "\t", "\n"}

\* The seconds a recorded savepoint time stands for.
SavepointSeconds == CHOOSE t \in 1..MaxTime : FormatTime(t) = J.SavepointTime

CompletionOrZero == IF J.CompletionTime = Nil THEN 0 ELSE Deref(J.CompletionTime)

SavepointRecorded == J.SavepointLocation # <<>> /\ J.SavepointTime # <<>>

\* A savepoint that is not final is fresh at time t.
FreshAsOf(t) ==
    /\ t # 0
    /\ P.MaxStateAgeToRestoreSeconds # Nil
    /\ SavepointRecorded
    /\ t - SavepointSeconds < Deref(P.MaxStateAgeToRestoreSeconds)

\* A recorded savepoint is no older at time t than the maximum age.
WithinMaxAge(t) ==
    /\ t # 0
    /\ P.MaxStateAgeToRestoreSeconds # Nil
    /\ SavepointRecorded
    /\ t - SavepointSeconds <= Deref(P.MaxStateAgeToRestoreSeconds)

\* The freshness evaluator's verdict as of time t.
UpToDateAsOf(t) == IsSavepointUpToDate(status, spec, t) = Ret(TRUE)

TakeDefaultOrTrue == P.TakeSavepointOnUpdate \in {Nil, Ptr(TRUE)}

Returned(name, v) == op = name /\ ret = Ret(v)

---------------------------------------------------------------------------
\* C1: ShouldRestart returns true exactly when the status is present and
\* Failed, Lost or DeployFailed, the spec is present with restart policy
\* FromSavepointOnFailure, and IsSavepointUpToDate holds as of the completion
\* time (the zero time when unset); it is never true for a savepoint that is
\* neither final nor within the maximum age of the completion time, and with
\* the completion time unset only for a final savepoint.
C1_ShouldRestartIff ==
    op = "ShouldRestart" =>
        /\ ret \in {Ret(TRUE), Ret(FALSE)}
        /\ ret = Ret(TRUE) <=>
              /\ StateIn({JobStateFailed, JobStateLost, JobStateDeployFailed})
              /\ HasSpec
              /\ P.RestartPolicy = Ptr(JobRestartPolicyFromSavepointOnFailure)
              /\ UpToDateAsOf(CompletionOrZero)
        /\ ret = Ret(TRUE) => J.FinalSavepoint \/ WithinMaxAge(CompletionOrZero)
        /\ ret = Ret(TRUE) /\ J.CompletionTime = Nil => J.FinalSavepoint

\* A failed job restarted from a fresh savepoint that is not final.
C1_Witness ==
    /\ Returned("ShouldRestart", TRUE)
    /\ ~J.FinalSavepoint
    /\ J.State = JobStateLost

\* C2: with the status absent, UpdateReady returns true and ShouldRestart
\* returns false for every spec, an absent spec included, and neither call
\* fails.
C2_AbsentStatus ==
    ~HasStatus =>
        /\ op = "UpdateReady" => ret = Ret(TRUE)
        /\ op = "ShouldRestart" => ret = Ret(FALSE)

C4_FinalSavepoint ==
    (/\ op = "IsSavepointUpToDate"
     /\ HasStatus
     /\ J.FinalSavepoint
     /\ SavepointRecorded) => ret = Ret(TRUE)

\* A final savepoint older than the maximum age.
C4_Witness ==
    /\ Returned("IsSavepointUpToDate", TRUE)
    /\ HasStatus /\ HasSpec
    /\ J.FinalSavepoint /\ SavepointRecorded
    /\ P.MaxStateAgeToRestoreSeconds # Nil
    /\ observeTime - SavepointSeconds > Deref(P.MaxStateAgeToRestoreSeconds)

\* C5: for a Running or Deploying job and a blank fromSavepoint, UpdateReady
\* is the final-savepoint flag when takeSavepointOnUpdate is true or unset,
\* and the freshness of the savepoint at the observe time when it is false;
\* so with the default it is false until a final savepoint is observed and
\* true while it stays.
C5_ActiveUpdate ==
    (/\ op = "UpdateReady"
     /\ StateIn({JobStateRunning, JobStateDeploying})
     /\ HasSpec
     /\ Blank(P.FromSavepoint)) =>
        IF TakeDefaultOrTrue
        THEN ret = Ret(J.FinalSavepoint)
        ELSE ret = Ret(UpToDateAsOf(observeTime))

\* A Running job with the default policy, ready once its savepoint is final.
C5_Witness ==
    /\ Returned("UpdateReady", TRUE)
    /\ StateIn({JobStateRunning})
    /\ HasSpec
    /\ P.TakeSavepointOnUpdate = Nil
    /\ Blank(P.FromSavepoint)
    /\ J.FinalSavepoint

\* C6: IsHighAvailabilityEnabled is true exactly when the map is present and
\* holds all three keys with values that are not blank, a high-availability
\* value of "none" in any letter case excluded; GetHAConfigMapName is ""
\* exactly when IsHighAvailabilityEnabled is false.
C6_HAComplete ==
    LET m == Deref(props)
        noneAnyCase(v) ==
            /\ Len(v) = 4
            /\ v[1] \in {"n", "N"} /\ v[2] \in {"o", "O"}
            /\ v[3] \in {"n", "N"} /\ v[4] \in {"e", "E"}
        complete ==
            /\ props # Nil
            /\ \A k \in HAKeys : k \in DOMAIN m /\ ~BlankString(m[k])
            /\ ~noneAnyCase(m[haConfigType])
    IN  /\ op = "IsHighAvailabilityEnabled" => ret = Ret(complete)
        /\ op = "GetHAConfigMapName" =>
              (ret = Ret(<<>>) <=> ~IsHighAvailabilityEnabled(props))

\* C7: with a fromSavepoint that is not blank, UpdateReady is true for every
\* present status.
C7_FromSavepointFirst ==
    (/\ op = "UpdateReady"
     /\ HasStatus
     /\ HasSpec
     /\ ~Blank(P.FromSavepoint)) => ret = Ret(TRUE)

\* A Running job with no savepoint at all, ready through fromSavepoint.
C7_Witness ==
    /\ Returned("UpdateReady", TRUE)
    /\ StateIn({JobStateRunning})
    /\ HasSpec
    /\ ~Blank(P.FromSavepoint)
    /\ ~J.FinalSavepoint
    /\ ~SavepointRecorded

\* C8: for a present status that is neither Running nor Deploying and a blank
\* fromSavepoint, UpdateReady is true exactly when the state is Updating with
\* takeSavepointOnUpdate false, or the savepoint is up to date as of the
\* completion time (the zero time when unset); an Updating job with
\* takeSavepointOnUpdate true or unset and no completion time is ready only
\* with a final savepoint.
C8_InactiveUpdate ==
    (/\ op = "UpdateReady"
     /\ HasStatus
     /\ ~StateIn({JobStateRunning, JobStateDeploying})
     /\ HasSpec
     /\ Blank(P.FromSavepoint)) =>
        /\ ret = Ret(\/ J.State = JobStateUpdating /\ P.TakeSavepointOnUpdate = Ptr(FALSE)
                     \/ UpToDateAsOf(CompletionOrZero))
        /\ (/\ J.State = JobStateUpdating
            /\ TakeDefaultOrTrue
            /\ J.CompletionTime = Nil) => ret = Ret(J.FinalSavepoint)

\* An Updating job with the default policy and a savepoint that is not final.
C8_Witness ==
    /\ Returned("UpdateReady", FALSE)
    /\ StateIn({JobStateUpdating})
    /\ HasSpec
    /\ P.TakeSavepointOnUpdate = Nil
    /\ Blank(P.FromSavepoint)
    /\ J.CompletionTime = Nil
    /\ SavepointRecorded
    /\ ~J.FinalSavepoint

\* C9: each of the ten defined states is in exactly one of the classes
\* active, pending, failed (and so stopped), and succeeded or cancelled (so
\* stopped and not failed); an absent status is in none; IsTerminated is
\* IsStopped and not ShouldRestart.
C9_Classification ==
    LET failedStates == {JobStateFailed, JobStateLost, JobStateDeployFailed}
        doneStates == {JobStateSucceeded, JobStateCancelled}
        classes ==
            {c \in {"active", "pending", "failed", "done"} :
                CASE c = "active" -> IsActive(status)
                  [] c = "pending" -> IsPending(status)
                  [] c = "failed" -> IsFailed(status) /\ IsStopped(status)
                  [] c = "done" -> /\ J.State \in doneStates
                                   /\ IsStopped(status)
                                   /\ ~IsFailed(status)}
    IN  /\ op = "IsActive" => ret = Ret(StateIn({JobStateRunning, JobStateDeploying}))
        /\ op = "IsPending" =>
              ret = Ret(StateIn({JobStatePending, JobStateUpdating, JobStateRestarting}))
        /\ op = "IsFailed" => ret = Ret(StateIn(failedStates))
        /\ op = "IsStopped" => ret = Ret(StateIn(failedStates \cup doneStates))
        /\ StateIn(JobStates) => Cardinality(classes) = 1
        /\ op = "IsTerminated" =>
              /\ ret = Ret(IsStopped(status) /\ ShouldRestart(status, spec) # Ret(TRUE))
              /\ ret = Ret(TRUE) => StateIn(failedStates \cup doneStates)

\* A Lost job that is stopped and not terminated: it is to be restarted.
C9_Witness ==
    /\ Returned("IsTerminated", FALSE)
    /\ StateIn({JobStateLost})
    /\ IsStopped(status)

\* C10: for a present status and spec, whenever ShouldRestart is true,
\* UpdateReady is true at every observe time.
C10_RestartImpliesReady ==
    HasStatus /\ HasSpec =>
        /\ Returned("ShouldRestart", TRUE) =>
              \A t \in Times : UpdateReady(status, spec, t) = Ret(TRUE)
        /\ op = "UpdateReady" /\ ShouldRestart(status, spec) = Ret(TRUE) =>
              ret = Ret(TRUE)

\* A failed job, restartable from a fresh savepoint that is not final, whose
\* update is ready although no fromSavepoint is given.
C10_Witness ==
    /\ Returned("UpdateReady", TRUE)
    /\ HasStatus /\ HasSpec
    /\ ShouldRestart(status, spec) = Ret(TRUE)
    /\ ~J.FinalSavepoint
    /\ Blank(P.FromSavepoint)

====
